---- MODULE Spec2Model ----
(***************************************************************************)
(* Sandbox preview and scroll synchronisation of the HTML editor:          *)
(*   HtmlRenderBase.vue      one render surface: an iframe fed by srcdoc,  *)
(*                           live style injection, scroll plumbing         *)
(*   PreviewSandboxStack.vue the host: shared scroll position, the apply   *)
(*                           and discard handlers, the v-if sandbox panel  *)
(* The sandbox store (useHtmlSandboxStore) is defined outside these two     *)
(* components; its three operations follow the written contract of the     *)
(* SandboxController.  The preview panel's HtmlElementEditBar takes the    *)
(* same html-content / scroll-top inputs and emits the same scroll event;  *)
(* it is modelled as a render surface without modified markers.            *)
(*                                                                         *)
(* Browser behaviour assumed: a context exists (contentDocument non-null)  *)
(* from its load signal on; a new srcdoc replaces the context when its     *)
(* load fires; changing a scroll offset (by the user or by assignment)     *)
(* queues one scroll event on that context; offsets asked for lie inside   *)
(* the scrollable range.  Vue behaviour assumed: a watcher runs only when  *)
(* the watched value changed, watchers and re-rendering run in the same    *)
(* tick as the handler that caused them.                                   *)
(***************************************************************************)
EXTENDS Integers, Sequences, FiniteSets, TLC

(* ------------------------------ bounds -------------------------------- *)
\* scroll offsets range over 0..MaxPos
MaxPos == 4
\* a proposed document carries at most MaxRegions modified regions
MaxRegions == 1

(* --------------------------- program constants ------------------------- *)
\* HtmlRenderBase.vue:191  Math.abs(currentScroll - newVal) > 2
DeadZone == 2

Positions == 0..MaxPos
Surfaces == {"preview", "sandbox"}
\* documents handed around as opaque markup
Docs == {"<p>x</p>", "<p data-sandbox-modified>y</p>"}
NoContent == ""
NoEditor == "no-editor"

VARIABLES
  htmlContent,       \* useHtmlEditorStore.htmlContent, the canonical document
  htmlEditor,        \* document of htmlEditorStore.htmlEditor, or NoEditor
  isActive,          \* useHtmlSandboxStore.isActive
  sandboxContent,    \* useHtmlSandboxStore.sandboxContent
  modifiedSections,  \* number of entries of useHtmlSandboxStore.modifiedSections
  styleOverrides,    \* usePreviewStyleStore.styleOverrides
  sharedScrollTop,   \* PreviewSandboxStack sharedScrollTop
  iframe,            \* per surface: the iframe element and its context
  lastEmit,          \* the scroll event the step just taken emitted to the host
  rounds,            \* scroll events dispatched since the last outside input
  lastOp,            \* the operation, handler or event of the step just taken
  again,             \* that sandbox operation was also the one of the step before
  raised,            \* the error that invocation raised, or "none"
  mergeCalls,        \* payloads the merge callback received in that invocation
  toasts             \* notifications the host showed in that invocation

vars == <<htmlContent, htmlEditor, isActive, sandboxContent, modifiedSections,
          styleOverrides, sharedScrollTop, iframe, lastEmit, rounds,
          lastOp, again, raised, mergeCalls, toasts>>

sandboxVars == <<isActive, sandboxContent, modifiedSections>>
opVars == <<lastOp, again, raised, mergeCalls, toasts>>

Abs(x) == IF x < 0 THEN -x ELSE x

(* ------------------------- StyleOverrideCompiler ----------------------- *)
UpperCase == {"A","B","C","D","E","F","G","H","I","J","K","L","M",
              "N","O","P","Q","R","S","T","U","V","W","X","Y","Z"}

toLowerCase(c) ==
  CASE c = "A" -> "a" [] c = "B" -> "b" [] c = "C" -> "c" [] c = "D" -> "d"
    [] c = "E" -> "e" [] c = "F" -> "f" [] c = "G" -> "g" [] c = "H" -> "h"
    [] c = "I" -> "i" [] c = "J" -> "j" [] c = "K" -> "k" [] c = "L" -> "l"
    [] c = "M" -> "m" [] c = "N" -> "n" [] c = "O" -> "o" [] c = "P" -> "p"
    [] c = "Q" -> "q" [] c = "R" -> "r" [] c = "S" -> "s" [] c = "T" -> "t"
    [] c = "U" -> "u" [] c = "V" -> "v" [] c = "W" -> "w" [] c = "X" -> "x"
    [] c = "Y" -> "y" [] c = "Z" -> "z" [] OTHER -> c

RECURSIVE Join(_, _)
\* Array.prototype.join: the strings of seq with sep between them
Join(seq, sep) ==
  IF seq = <<>> THEN ""
  ELSE IF Len(seq) = 1 THEN seq[1]
  ELSE seq[1] \o sep \o Join(Tail(seq), sep)

RECURSIVE HyphenCase_LowerOnly(_)
\* the key lower-cased with no hyphen put before its upper-case letters
HyphenCase_LowerOnly(key) ==
  IF key = <<>> THEN ""
  ELSE toLowerCase(key[1]) \o HyphenCase_LowerOnly(Tail(key))

RECURSIVE HyphenCase(_)
\* key.replace(/([A-Z])/g, `-$1`).toLowerCase(), key a sequence of characters
HyphenCase(key) ==
  IF key = <<>> THEN ""
  ELSE (IF key[1] \in UpperCase THEN "-" \o toLowerCase(key[1])
        ELSE toLowerCase(key[1])) \o HyphenCase(Tail(key))

\* one declaration line of a rule
Declaration(entry) ==
  "  " \o HyphenCase(entry.key) \o ": " \o entry.value \o " !important;"

\* one rule block: `${override.selector} {\n${styles}\n}`
RuleBlock(override) ==
  override.selector \o " {\n"
    \o Join([i \in 1..Len(override.styles) |-> Declaration(override.styles[i])], "\n")
    \o "\n}"

\* a rule whose styles are not an object makes Object.entries throw
Malformed(override) == override.malformed

\* the outcome of a compilation that ended in an exception
Thrown == "TypeError"

\* the body of the try block: the joined rule blocks, or the exception
CompileRules(overrides) ==
  IF \E i \in 1..Len(overrides) : Malformed(overrides[i])
  THEN Thrown
  ELSE Join([i \in 1..Len(overrides) |-> RuleBlock(overrides[i])], "\n\n")

\* the compiler without its catch clause
generateStyleText_Propagates(overrides) == CompileRules(overrides)

\* the compiler leaving a placeholder comment for a list without rules
generateStyleText_Placeholder(overrides) ==
  IF overrides = <<>> THEN "/* no overrides */"
  ELSE IF CompileRules(overrides) = Thrown THEN "" ELSE CompileRules(overrides)

\* try { ... } catch { return `` }
generateStyleText(overrides) ==
  IF CompileRules(overrides) = Thrown THEN "" ELSE CompileRules(overrides)

\* the rules the style-override source may hold
ColorRule ==
  [selector |-> "p", malformed |-> FALSE,
   styles |-> << [key |-> <<"c","o","l","o","r">>, value |-> "red"] >>]
BackgroundRule ==
  [selector |-> "h1", malformed |-> FALSE,
   styles |-> << [key |-> <<"b","a","c","k","g","r","o","u","n","d","C","o","l","o","r">>,
                  value |-> "red"],
                 [key |-> <<"f","o","n","t","S","i","z","e">>, value |-> "12px"] >>]
BrokenRule == [selector |-> "div", malformed |-> TRUE, styles |-> <<>>]
\* the rule lists the store is taken through
StyleLists == {<<>>, <<ColorRule>>, <<BackgroundRule>>, <<BrokenRule>>,
               <<ColorRule, BackgroundRule>>}

(* ------------------------------ payload -------------------------------- *)
MarkerCss == "[data-sandbox-modified] { outline: 2px dashed } @keyframes sandboxPulse"
NoPayload == <<>>

\* the payload with the marker block emitted whatever the flag says
generateFullHtml_AlwaysMarkers(content, showModifiedMarkers, overrides) ==
  << "<!DOCTYPE html><html><head><style>base",
     generateStyleText(overrides),
     MarkerCss,
     "scrollbar</style></head><body id=html-output>",
     content,
     "</body></html>" >>

\* the srcdoc: template head, injected overrides, marker block, tail, content
generateFullHtml(content, showModifiedMarkers, overrides) ==
  << "<!DOCTYPE html><html><head><style>base",
     generateStyleText(overrides),
     IF showModifiedMarkers THEN MarkerCss ELSE "",
     "scrollbar</style></head><body id=html-output>",
     content,
     "</body></html>" >>

(* ------------------------------ surfaces ------------------------------- *)
Unmounted ==
  [mounted |-> FALSE, srcdoc |-> NoPayload, loading |-> FALSE, hasDoc |-> FALSE,
   payload |-> NoPayload, docTop |-> 0, bodyTop |-> 0, styleEls |-> 0,
   styleText |-> "", listeners |-> 0, scrollPending |-> "none"]

\* a freshly mounted iframe: srcdoc set, context not yet there
Mounted(srcdoc) == [Unmounted EXCEPT !.mounted = TRUE, !.srcdoc = srcdoc, !.loading = TRUE]

\* doc.body.scrollTop || doc.documentElement.scrollTop
currentScroll_BodyFirst(f) == IF f.bodyTop # 0 THEN f.bodyTop ELSE f.docTop

\* doc.documentElement.scrollTop || doc.body.scrollTop
currentScroll(f) == IF f.docTop # 0 THEN f.docTop ELSE f.bodyTop

\* both offsets assigned; a changed offset queues a scroll event
SetScroll(f, v) ==
  IF f.docTop = v /\ f.bodyTop = v THEN f
  ELSE [f EXCEPT !.docTop = v, !.bodyTop = v,
                 !.scrollPending = IF @ = "user" THEN "user" ELSE "echo"]

\* updateIframeStyles without its guard on contentDocument
updateIframeStyles_Unguarded(f, overrides) ==
  [f EXCEPT !.styleEls = IF @ = 0 THEN 1 ELSE @,
            !.styleText = generateStyleText(overrides)]

\* updateIframeStyles adding a style element and text on every call
updateIframeStyles_Appends(f, overrides) ==
  IF ~f.hasDoc THEN f
  ELSE [f EXCEPT !.styleEls = @ + 1,
                 !.styleText = @ \o generateStyleText(overrides)]

\* get or create the element with id preview-style-overrides, set its text
updateIframeStyles(f, overrides) ==
  IF ~f.hasDoc THEN f
  ELSE [f EXCEPT !.styleEls = IF @ = 0 THEN 1 ELSE @,
                 !.styleText = generateStyleText(overrides)]

\* the watcher with the dead zone left out: any differing position is applied
WatchScrollTop_NoDeadZone(f, newVal) ==
  IF ~f.hasDoc THEN f
  ELSE IF currentScroll(f) # newVal THEN SetScroll(f, newVal)
  ELSE f

\* the watcher with the comparison turned round: only near positions are applied
WatchScrollTop_Inverted(f, newVal) ==
  IF ~f.hasDoc THEN f
  ELSE IF Abs(currentScroll(f) - newVal) <= DeadZone THEN SetScroll(f, newVal)
  ELSE f

\* the watcher tolerating twice the dead zone
WatchScrollTop_WideZone(f, newVal) ==
  IF ~f.hasDoc THEN f
  ELSE IF Abs(currentScroll(f) - newVal) > DeadZone + DeadZone THEN SetScroll(f, newVal)
  ELSE f

\* watch(() => props.scrollTop, ...)
WatchScrollTop(f, newVal) ==
  IF ~f.hasDoc THEN f
  ELSE IF Abs(currentScroll(f) - newVal) > DeadZone THEN SetScroll(f, newVal)
  ELSE f

\* the context the browser builds from the srcdoc when the load fires
FreshDocument(f) ==
  [f EXCEPT !.loading = FALSE, !.hasDoc = TRUE, !.payload = f.srcdoc,
            !.docTop = 0, !.bodyTop = 0, !.styleEls = 0, !.styleText = "",
            !.listeners = 0, !.scrollPending = "none"]

\* handleLoad handing the initial position to the watcher's comparison
handleLoad_DeadZone(f, overrides, scrollTop) ==
  IF ~f.hasDoc THEN f
  ELSE LET styled == updateIframeStyles(f, overrides)
           listening == [styled EXCEPT !.listeners = @ + 1]
       IN WatchScrollTop(listening, scrollTop)

\* handleLoad; the host listens to no load event, and always passes a scrollTop
handleLoad(f, overrides, scrollTop) ==
  IF ~f.hasDoc THEN f
  ELSE LET styled == updateIframeStyles(f, overrides)
           listening == [styled EXCEPT !.listeners = @ + 1]
       IN SetScroll(listening, scrollTop)

\* which surfaces the template renders, and with which srcdoc
Rendered(s, active) == s = "preview" \/ active
\* show-modified-markers is passed to the sandbox surface only
ShowModifiedMarkers(s) == s = "sandbox"
SrcdocOf(s, html, sbox, overrides) ==
  IF s = "preview" THEN generateFullHtml(html, ShowModifiedMarkers(s), overrides)
  ELSE generateFullHtml(sbox, ShowModifiedMarkers(s), overrides)

\* re-rendering that hides a surface no longer shown and keeps its iframe
Patch_Hides(f, show, srcdoc) ==
  IF ~show THEN f
  ELSE IF ~f.mounted THEN Mounted(srcdoc)
  ELSE IF f.srcdoc # srcdoc THEN [f EXCEPT !.srcdoc = srcdoc, !.loading = TRUE]
  ELSE f

\* re-rendering: mount, unmount, or patch the srcdoc attribute of a surface
Patch(f, show, srcdoc) ==
  IF ~show THEN Unmounted
  ELSE IF ~f.mounted THEN Mounted(srcdoc)
  ELSE IF f.srcdoc # srcdoc THEN [f EXCEPT !.srcdoc = srcdoc, !.loading = TRUE]
  ELSE f

Render(fs, html, sbox, active, overrides) ==
  [s \in Surfaces |-> Patch(fs[s], Rendered(s, active), SrcdocOf(s, html, sbox, overrides))]

(* ------------------------------- Init ---------------------------------- *)
NoEmit == [surface |-> "none", pos |-> 0, cause |-> "none"]

Init ==
  /\ htmlContent \in Docs
  /\ htmlEditor \in {NoEditor, htmlContent}
  /\ isActive = FALSE
  /\ sandboxContent = NoContent
  /\ modifiedSections = 0
  /\ styleOverrides = <<>>
  /\ sharedScrollTop = 0
  /\ iframe = Render([s \in Surfaces |-> Unmounted], htmlContent, NoContent, FALSE, <<>>)
  /\ lastEmit = NoEmit
  /\ rounds = 0
  /\ lastOp = "none"
  /\ again = FALSE
  /\ raised = "none"
  /\ mergeCalls = <<>>
  /\ toasts = <<>>

\* what the step just taken was, and what it let the host observe
Observed(op, err, merges, shown) ==
  /\ lastOp' = op
  /\ again' = (op \in {"activate", "apply", "discard"} /\ op = lastOp)
  /\ lastEmit' = NoEmit
  /\ raised' = err
  /\ mergeCalls' = merges
  /\ toasts' = shown

\* the step just taken delivered a scroll event to the host
Emitted(s, pos, cause) ==
  /\ lastOp' = "scroll"
  /\ again' = FALSE
  /\ lastEmit' = [surface |-> s, pos |-> pos, cause |-> cause]
  /\ raised' = "none"
  /\ mergeCalls' = <<>>
  /\ toasts' = <<>>

(* ---------------------------- browser events --------------------------- *)
\* the iframe's load event: the new context is there, handleLoad runs
Load(s) ==
  /\ iframe[s].mounted /\ iframe[s].loading
  /\ iframe' = [iframe EXCEPT ![s] = handleLoad(FreshDocument(@), styleOverrides, sharedScrollTop)]
  /\ rounds' = 0
  /\ Observed("load", "none", <<>>, <<>>)
  /\ UNCHANGED <<htmlContent, htmlEditor, sandboxVars, styleOverrides,
                 sharedScrollTop>>

\* the user scrolls the document-level or the body-level container
UserScroll(s, level, pos) ==
  /\ iframe[s].hasDoc
  /\ \/ /\ level = "document" /\ pos # iframe[s].docTop
        /\ iframe' = [iframe EXCEPT ![s].docTop = pos, ![s].scrollPending = "user"]
     \/ /\ level = "body" /\ pos # iframe[s].bodyTop
        /\ iframe' = [iframe EXCEPT ![s].bodyTop = pos, ![s].scrollPending = "user"]
  /\ rounds' = 0
  /\ Observed("userScroll", "none", <<>>, <<>>)
  /\ UNCHANGED <<htmlContent, htmlEditor, sandboxVars, styleOverrides,
                 sharedScrollTop>>

\* handleScroll giving the further-scrolled surface priority
handleScroll_KeepsLarger(shared, scrollTop) == IF scrollTop > shared THEN scrollTop ELSE shared

\* PreviewSandboxStack handleScroll: the new shared position
handleScroll(shared, scrollTop) == scrollTop

\* a queued scroll event reaches the listener: emit, handleScroll, watchers
ScrollEvent(s) ==
  /\ iframe[s].hasDoc /\ iframe[s].scrollPending # "none" /\ iframe[s].listeners > 0
  /\ LET pos == currentScroll(iframe[s])
         shared == handleScroll(sharedScrollTop, pos)
         delivered == [iframe EXCEPT ![s].scrollPending = "none"]
     IN /\ Emitted(s, pos, iframe[s].scrollPending)
        /\ sharedScrollTop' = shared
        /\ iframe' = IF shared = sharedScrollTop THEN delivered
                     ELSE [t \in Surfaces |-> WatchScrollTop(delivered[t], shared)]
  /\ rounds' = rounds + 1
  /\ UNCHANGED <<htmlContent, htmlEditor, sandboxVars, styleOverrides>>

(* --------------------------- SandboxController ------------------------- *)
SandboxState == [isActive |-> isActive, sandboxContent |-> sandboxContent,
                 modifiedSections |-> modifiedSections]
Cleared == [isActive |-> FALSE, sandboxContent |-> NoContent, modifiedSections |-> 0]

\* activate overwriting a comparison already in flight
openSandbox_Overwrites(st, doc, regions) ==
  [state |-> [isActive |-> TRUE, sandboxContent |-> doc, modifiedSections |-> regions],
   raised |-> "none"]

\* activate(proposedDocument, modifiedRegions)
openSandbox(st, doc, regions) ==
  IF st.isActive THEN [state |-> st, raised |-> "InvalidStateError"]
  ELSE [state |-> [isActive |-> TRUE, sandboxContent |-> doc, modifiedSections |-> regions],
        raised |-> "none"]

\* apply(mergeCallback): the payloads handed to the callback, then the state
applySandboxToEditor(st) ==
  IF ~st.isActive THEN [state |-> st, raised |-> "InvalidStateError", payloads |-> <<>>]
  ELSE [state |-> Cleared, raised |-> "none", payloads |-> <<st.sandboxContent>>]

\* discard()
closeSandbox(st) == IF ~st.isActive THEN st ELSE Cleared

\* the merge callback writing to the editor only, the store content left as it was
MergeCallback_KeepsHtml(editor, content) ==
  [html |-> htmlContent, editor |-> IF editor # NoEditor THEN content ELSE NoEditor]

\* the merge callback of handleApply: setHtmlContent, then the editor dispatch
\* replacing 0..doc.length by the content
MergeCallback(editor, content) ==
  [html |-> content, editor |-> IF editor # NoEditor THEN content ELSE NoEditor]

\* handleApply's statement after the store call: skipped when the call throws
ApplyToasts(err) == IF err = "none" THEN <<"success">> ELSE <<>>

\* handleDiscard's statement after the store call
DiscardToasts == <<"info">>

SetSandbox(st) ==
  /\ isActive' = st.isActive
  /\ sandboxContent' = st.sandboxContent
  /\ modifiedSections' = st.modifiedSections

\* the modification-producing collaborator activates the sandbox
Activate(doc, regions) ==
  /\ LET r == openSandbox(SandboxState, doc, regions)
     IN /\ SetSandbox(r.state)
        /\ Observed("activate", r.raised, <<>>, <<>>)
        /\ iframe' = Render(iframe, htmlContent, r.state.sandboxContent,
                            r.state.isActive, styleOverrides)
  /\ UNCHANGED <<htmlContent, htmlEditor, styleOverrides, sharedScrollTop, rounds>>

handleApply ==
  /\ LET r == applySandboxToEditor(SandboxState)
         merged == IF r.payloads = <<>> THEN [html |-> htmlContent, editor |-> htmlEditor]
                   ELSE MergeCallback(htmlEditor, r.payloads[1])
     IN /\ SetSandbox(r.state)
        /\ htmlContent' = merged.html
        /\ htmlEditor' = merged.editor
        /\ Observed("apply", r.raised, r.payloads, ApplyToasts(r.raised))
        /\ iframe' = Render(iframe, merged.html, r.state.sandboxContent,
                            r.state.isActive, styleOverrides)
  /\ UNCHANGED <<styleOverrides, sharedScrollTop, rounds>>

\* handleDiscard that only notifies, without closing the sandbox
handleDiscard_OnlyNotifies ==
  /\ Observed("discard", "none", <<>>, <<"info">>)
  /\ UNCHANGED <<htmlContent, htmlEditor, sandboxVars, styleOverrides, sharedScrollTop,
                 iframe, rounds>>

handleDiscard ==
  /\ LET st == closeSandbox(SandboxState)
     IN /\ SetSandbox(st)
        /\ Observed("discard", "none", <<>>, DiscardToasts)
        /\ iframe' = Render(iframe, htmlContent, st.sandboxContent, st.isActive, styleOverrides)
  /\ UNCHANGED <<htmlContent, htmlEditor, styleOverrides, sharedScrollTop, rounds>>

\* the buttons sit inside the v-if="isSandboxActive" panel
isSandboxActive == isActive
\* the apply button rendered outside the v-if panel
ClickApply_Ungated == handleApply

ClickApply == isSandboxActive /\ handleApply
ClickDiscard == isSandboxActive /\ handleDiscard

(* ------------------------- collaborators' changes ---------------------- *)
\* the style-override source changes: the deep watcher, then re-rendering
SetStyleOverrides(overrides) ==
  /\ overrides # styleOverrides
  /\ styleOverrides' = overrides
  /\ iframe' = Render([s \in Surfaces |-> updateIframeStyles(iframe[s], overrides)],
                      htmlContent, sandboxContent, isActive, overrides)
  /\ Observed("setStyles", "none", <<>>, <<>>)
  /\ UNCHANGED <<htmlContent, htmlEditor, sandboxVars, sharedScrollTop, rounds>>

\* the editing surface changes the canonical document
EditContent(doc) ==
  /\ doc # htmlContent
  /\ htmlContent' = doc
  /\ htmlEditor' = IF htmlEditor # NoEditor THEN doc ELSE NoEditor
  /\ iframe' = Render(iframe, doc, sandboxContent, isActive, styleOverrides)
  /\ Observed("edit", "none", <<>>, <<>>)
  /\ UNCHANGED <<sandboxVars, styleOverrides, sharedScrollTop, rounds>>

(* --------------------------- specifications ---------------------------- *)
Loading == \E s \in Surfaces : Load(s)
Scrolling ==
  \/ \E s \in Surfaces, level \in {"document", "body"}, pos \in Positions : UserScroll(s, level, pos)
  \/ \E s \in Surfaces : ScrollEvent(s)
Activating == \E doc \in Docs, regions \in 0..MaxRegions : Activate(doc, regions)
Styling == \E overrides \in StyleLists : SetStyleOverrides(overrides)
Editing == \E doc \in Docs : EditContent(doc)

\* the whole program, driven through the host's buttons
Next ==
  \/ Loading
  \/ Scrolling
  \/ Activating
  \/ ClickApply
  \/ ClickDiscard
  \/ Styling
  \/ Editing

Spec == Init /\ [][Next]_vars

\* the comparison view with the sandbox open: two surfaces and the shared position
InitScroll ==
  /\ htmlContent = "<p>x</p>"
  /\ htmlEditor = NoEditor
  /\ isActive = TRUE
  /\ sandboxContent = "<p data-sandbox-modified>y</p>"
  /\ modifiedSections = 1
  /\ styleOverrides = <<>>
  /\ sharedScrollTop = 0
  /\ iframe = Render([s \in Surfaces |-> Unmounted], htmlContent, sandboxContent, TRUE, <<>>)
  /\ lastEmit = NoEmit
  /\ rounds = 0
  /\ lastOp = "activate"
  /\ again = FALSE
  /\ raised = "none"
  /\ mergeCalls = <<>>
  /\ toasts = <<>>

NextScroll == Loading \/ Scrolling \/ Editing

SpecScroll == InitScroll /\ [][NextScroll]_vars

\* the sandbox driven by the collaborator and the panel's buttons
NextSandbox == Loading \/ Activating \/ ClickApply \/ ClickDiscard \/ Editing

SpecSandbox == Init /\ [][NextSandbox]_vars

\* the handlers invoked in whatever state the sandbox is in
NextHandlers == Loading \/ Activating \/ handleApply \/ handleDiscard \/ Editing

SpecHandlers == Init /\ [][NextHandlers]_vars

\* style overrides changing under two surfaces that load and follow each other's
\* scrolling to the top and to the far end
FarPositions == {0, MaxPos}
NextStyle ==
  \/ Loading
  \/ Styling
  \/ \E s \in Surfaces, pos \in FarPositions : UserScroll(s, "document", pos)
  \/ \E s \in Surfaces : ScrollEvent(s)

SpecStyle == InitScroll /\ [][NextStyle]_vars

(* ------------------------ scroll synchronisation ----------------------- *)
Ready(s) == iframe[s].hasDoc
Offset(s) == currentScroll(iframe[s])
OffsetAfter(s) == currentScroll(iframe'[s])
Broadcast == sharedScrollTop' # sharedScrollTop
Reported == lastOp' = "scroll"

\* C1 as stated: when A reports p, every ready surface's effective offset becomes
\* p, and a surface never re-reports, as the echo of an applied broadcast, a
\* position within 2 units of the position broadcast to it.
C1_Original ==
  [][/\ Broadcast => \A s \in Surfaces : Ready(s) => OffsetAfter(s) = sharedScrollTop'
     /\ (Reported /\ lastEmit'.cause = "echo")
          => Abs(lastEmit'.pos - sharedScrollTop) > DeadZone]_vars

\* C1 amended: when A reports p, every ready surface's effective offset ends
\* within 2 units of p, exactly p where it differed from p by more than 2 and
\* unchanged otherwise; the surface that applied p re-reports once, as the echo of
\* the applied offset, a position within 2 units of the shared position; a
\* surface with no scroll event pending is within 2 units of the shared position
\* and the chain of reports after the last user scroll or load ends within 3
\* rounds.
C1_Converges ==
  /\ [](rounds <= 3)
  /\ [](\A s \in Surfaces :
          (Ready(s) /\ iframe[s].scrollPending = "none")
            => Abs(Offset(s) - sharedScrollTop) <= DeadZone)
  /\ [][/\ Broadcast => \A s \in Surfaces : Ready(s) =>
              /\ Abs(OffsetAfter(s) - sharedScrollTop') <= DeadZone
              /\ Abs(Offset(s) - sharedScrollTop') > DeadZone
                   => OffsetAfter(s) = sharedScrollTop'
              /\ Abs(Offset(s) - sharedScrollTop') <= DeadZone
                   => OffsetAfter(s) = Offset(s)
        /\ (Reported /\ lastEmit'.cause = "echo")
             => Abs(lastEmit'.pos - sharedScrollTop) <= DeadZone]_vars

\* the preview reported p > 2, the sandbox applied it and echoed p, all is quiet
C1_Witness ==
  /\ lastOp = "scroll"
  /\ lastEmit = [surface |-> "sandbox", pos |-> sharedScrollTop, cause |-> "echo"]
  /\ sharedScrollTop > DeadZone
  /\ rounds = 2
  /\ \A s \in Surfaces :
       Ready(s) /\ iframe[s].scrollPending = "none" /\ Offset(s) = sharedScrollTop

\* C2: a ready surface receiving a position at most 2 units from its current
\* offset leaves both offsets unchanged and queues no scroll event; it applies
\* the position exactly when the difference exceeds 2.
C2_DeadZone ==
  [][Broadcast => \A s \in Surfaces : Ready(s) =>
       IF Abs(Offset(s) - sharedScrollTop') <= DeadZone
       THEN /\ iframe'[s].docTop = iframe[s].docTop
            /\ iframe'[s].bodyTop = iframe[s].bodyTop
            /\ iframe'[s].scrollPending = iframe[s].scrollPending \/ lastEmit'.surface = s
       ELSE /\ iframe'[s].docTop = sharedScrollTop'
            /\ iframe'[s].bodyTop = sharedScrollTop'
            /\ iframe'[s].scrollPending # "none"]_vars

\* the preview reported a position 1 or 2 units from the sandbox's offset: the
\* sandbox stayed where it was, with nothing queued
C2_Witness ==
  /\ lastOp = "scroll" /\ lastEmit.surface = "preview"
  /\ Ready("sandbox") /\ iframe["sandbox"].scrollPending = "none"
  /\ Offset("sandbox") # sharedScrollTop
  /\ Abs(Offset("sandbox") - sharedScrollTop) <= DeadZone

\* C10: the shared position is always the position of the report that arrived
\* last, whichever surface sent it, and nothing but a report changes it.
C10_LastWriteWins ==
  [][/\ Reported => sharedScrollTop' = lastEmit'.pos
     /\ ~Reported => sharedScrollTop' = sharedScrollTop]_vars

\* the sandbox reported last, below the offset the preview still has to report
C10_Witness ==
  /\ lastOp = "scroll" /\ lastEmit.surface = "sandbox"
  /\ sharedScrollTop = lastEmit.pos
  /\ Ready("preview") /\ iframe["preview"].scrollPending = "user"
  /\ Offset("preview") > sharedScrollTop

(* --------------------------- sandbox transitions ----------------------- *)
\* C3: apply on an active sandbox hands the merge callback the proposed document,
\* once; the canonical document (and the editor's, where there is one) becomes the
\* proposed document; the sandbox ends inactive with document and regions cleared.
C3_ApplyForwards ==
  [][(lastOp' = "apply" /\ isActive) =>
       /\ raised' = "none"
       /\ mergeCalls' = <<sandboxContent>>
       /\ htmlContent' = sandboxContent
       /\ htmlEditor # NoEditor => htmlEditor' = sandboxContent
       /\ ~isActive' /\ sandboxContent' = NoContent /\ modifiedSections' = 0]_vars

\* an applied proposal that differed from the canonical document
C3_Witness ==
  /\ lastOp = "apply" /\ raised = "none"
  /\ mergeCalls = <<"<p data-sandbox-modified>y</p>">>
  /\ htmlContent = "<p data-sandbox-modified>y</p>"
  /\ htmlEditor = htmlContent
  /\ ~isActive /\ sandboxContent = NoContent /\ modifiedSections = 0
  /\ iframe["preview"].hasDoc /\ iframe["preview"].payload[5] = "<p>x</p>"

\* C4: discard raises nothing and leaves the sandbox inactive and cleared; on a
\* sandbox already inactive it changes neither the sandbox state nor any surface.
C4_DiscardIdempotent ==
  [][lastOp' = "discard" =>
       /\ raised' = "none"
       /\ ~isActive' /\ sandboxContent' = NoContent /\ modifiedSections' = 0
       /\ ~iframe'["sandbox"].mounted
       /\ ~isActive => UNCHANGED <<sandboxVars, iframe, htmlContent, htmlEditor>>]_vars

\* two discards in a row: the second met an inactive sandbox and left it so
C4_Witness ==
  /\ lastOp = "discard" /\ again
  /\ ~isActive /\ sandboxContent = NoContent /\ modifiedSections = 0
  /\ ~iframe["sandbox"].mounted
  /\ raised = "none"

\* C5: activate on an active sandbox raises InvalidStateError and leaves the
\* stored snapshot, the region count and the surfaces as they were; the only
\* sandbox surface is the one of the first activation.
C5_DoubleActivateRejected ==
  [][(lastOp' = "activate" /\ isActive) =>
       /\ raised' = "InvalidStateError"
       /\ UNCHANGED <<sandboxVars, iframe, htmlContent, htmlEditor>>]_vars

\* a rejected second activation: the first snapshot is still the one stored
C5_Witness ==
  /\ lastOp = "activate" /\ raised = "InvalidStateError"
  /\ isActive /\ sandboxContent \in Docs
  /\ iframe["sandbox"].mounted /\ iframe["sandbox"].srcdoc[5] = sandboxContent

\* C6 as stated: apply on an inactive sandbox raises InvalidStateError without
\* calling the merge callback, and the host shows a failure notification and no
\* success notification.
C6_InactiveApplySurfaced ==
  [][(lastOp' = "apply" /\ ~isActive) =>
       /\ raised' = "InvalidStateError"
       /\ mergeCalls' = <<>>
       /\ toasts' = <<"error">>]_vars

\* C7 as stated: every invocation of apply or discard shows the host exactly one
\* notification, failing and no-op invocations included.
C7_NotifiedOnce ==
  [][lastOp' \in {"apply", "discard"} => Len(toasts') = 1]_vars

(* ------------------------------ live updates --------------------------- *)
StylesChanged == styleOverrides' # styleOverrides

\* the context of a surface, as opposed to the iframe element's attributes
ContextOf(f) ==
  <<f.hasDoc, f.payload, f.docTop, f.bodyTop, f.styleEls, f.styleText,
    f.listeners, f.scrollPending>>

\* C8 as stated: a change of the style overrides under an initialized context
\* overwrites the injected style text and leaves the payload handed to the
\* context as it was, so that no load is under way that was not before.
C8_StyleUpdateInPlace ==
  [][StylesChanged => \A s \in Surfaces : Ready(s) =>
       /\ iframe'[s].styleText = generateStyleText(styleOverrides')
       /\ iframe'[s].srcdoc = iframe[s].srcdoc
       /\ iframe'[s].loading = iframe[s].loading]_vars

\* C9: a change of the style overrides or of the shared scroll position that
\* meets a mounted surface whose context does not exist yet raises nothing,
\* leaves that surface without a context, and has it emit no scroll event.
C9_NoContextNoOp ==
  [][(StylesChanged \/ Broadcast) => \A s \in Surfaces :
       (iframe[s].mounted /\ ~Ready(s)) =>
         /\ raised' = "none"
         /\ lastEmit'.surface # s
         /\ ContextOf(iframe'[s]) = ContextOf(iframe[s])
         /\ ContextOf(iframe'[s]) = ContextOf(Unmounted)]_vars

\* the sandbox is still loading after both a style change and a scroll report
C9_Witness ==
  /\ iframe["sandbox"].mounted /\ ~Ready("sandbox") /\ iframe["sandbox"].loading
  /\ styleOverrides # <<>> /\ generateStyleText(styleOverrides) # ""
  /\ sharedScrollTop > DeadZone
  /\ lastOp \in {"setStyles", "scroll"}
  /\ ContextOf(iframe["sandbox"]) = ContextOf(Unmounted)

(* ------------------------------- payload ------------------------------- *)
\* the marker CSS block is one of the payload's parts
HasMarkerCss(payload) == \E i \in 1..Len(payload) : payload[i] = MarkerCss
\* the document carries modification-marker attributes
MarkedDoc == "<p data-sandbox-modified>y</p>"

\* C11: the payload of a surface, as set on the iframe and as loaded into its
\* context, holds the marker CSS block exactly when the surface is given
\* showModifiedMarkers, whatever markers the document carries.
C11_MarkersGated ==
  \A s \in Surfaces :
    /\ iframe[s].mounted => (HasMarkerCss(iframe[s].srcdoc) <=> ShowModifiedMarkers(s))
    /\ iframe[s].hasDoc => (HasMarkerCss(iframe[s].payload) <=> ShowModifiedMarkers(s))

\* the preview shows a document with marker attributes and no marker styling,
\* beside a sandbox whose payload has the marker block
C11_Witness ==
  /\ iframe["preview"].hasDoc /\ iframe["preview"].payload[5] = MarkedDoc
  /\ ~HasMarkerCss(iframe["preview"].payload)
  /\ iframe["sandbox"].hasDoc /\ HasMarkerCss(iframe["sandbox"].payload)

(* ------------------------------ compiler ------------------------------- *)
\* the rule list holds a rule the compiler fails on
HasMalformed(overrides) == \E i \in 1..Len(overrides) : Malformed(overrides[i])

\* C12: no exception leaves the style compiler: no payload and no injected
\* text is an exception, a payload generated from a list with a malformed rule
\* carries the empty style text, no handler is left with an error, and a
\* context that became ready completed its ready handling (style element
\* injected, scroll listener registered) whatever the list holds.
C12_CompileNeverRaises ==
  /\ raised = "none"
  /\ \A s \in Surfaces :
       /\ iframe[s].mounted =>
            /\ iframe[s].srcdoc[2] # Thrown
            /\ HasMalformed(styleOverrides) => iframe[s].srcdoc[2] = ""
       /\ Ready(s) =>
            /\ iframe[s].styleText # Thrown
            /\ iframe[s].payload[2] # Thrown
            /\ HasMalformed(styleOverrides) => iframe[s].styleText = ""
            /\ iframe[s].styleEls = 1 /\ iframe[s].listeners = 1

\* a context became ready while the list held a malformed rule
C12_Witness ==
  /\ HasMalformed(styleOverrides) /\ lastOp = "load"
  /\ \E s \in Surfaces :
       /\ Ready(s) /\ ~iframe[s].loading
       /\ iframe[s].payload[2] = "" /\ iframe[s].styleText = ""
       /\ iframe[s].listeners = 1

Capitals(key) == {i \in 1..Len(key) : key[i] \in UpperCase}
\* the text of the rule lists as the spec gives it
BackgroundText == "h1 {\n  background-color: red !important;\n  font-size: 12px !important;\n}"
ColorText == "p {\n  color: red !important;\n}"

\* C14: in the text injected into a ready context every declaration key is
\* hyphenated lower-case: the rule backgroundColor: red, fontSize: 12px gives
\* the lines `background-color: red !important;` and `font-size: 12px
\* !important;`, a key without upper-case letters is emitted as it is, and the
\* name emitted for a key is one character longer per upper-case letter.
C14_HyphenatedNames ==
  /\ \A s \in Surfaces : Ready(s) =>
       /\ styleOverrides = <<BackgroundRule>> => iframe[s].styleText = BackgroundText
       /\ styleOverrides = <<ColorRule>> => iframe[s].styleText = ColorText
       /\ styleOverrides = <<ColorRule, BackgroundRule>>
            => iframe[s].styleText = ColorText \o "\n\n" \o BackgroundText
  /\ \A i \in 1..Len(styleOverrides) : \A j \in 1..Len(styleOverrides[i].styles) :
       LET key == styleOverrides[i].styles[j].key
       IN  Len(HyphenCase(key)) = Len(key) + Cardinality(Capitals(key))

\* a ready context was given the rule with keys backgroundColor and fontSize
C14_Witness ==
  /\ styleOverrides = <<BackgroundRule>> /\ lastOp = "setStyles"
  /\ \E s \in Surfaces : Ready(s) /\ iframe[s].styleText = BackgroundText

(* ----------------------------- quiescence ------------------------------ *)
\* the browser delivers every queued scroll event and every pending load
Delivery ==
  \A s \in Surfaces : WF_vars(ScrollEvent(s)) /\ WF_vars(Load(s))

\* users scrolling the document of either surface, and the events that follow
NextQuiesce ==
  \/ Loading
  \/ \E s \in Surfaces, pos \in Positions : UserScroll(s, "document", pos)
  \/ \E s \in Surfaces : ScrollEvent(s)

SpecQuiesce == InitScroll /\ [][NextQuiesce]_vars /\ Delivery

\* the last step was a user's scroll
UserInput == lastOp = "userScroll"
\* nothing is queued and every ready surface is within the dead zone
Quiet ==
  \A s \in Surfaces :
    /\ ~iframe[s].loading /\ iframe[s].scrollPending = "none"
    /\ Ready(s) => Abs(Offset(s) - sharedScrollTop) <= DeadZone

\* C15: unless input from outside keeps coming, the chain of reports and
\* broadcasts ends: from some point on no event is queued, and every ready
\* surface's offset is within the dead zone of the shared position.
C15_Quiescence == ([]<>UserInput) \/ (<>[]Quiet)

\* both surfaces were scrolled by the user, one after the other, and the
\* exchange that followed has ended with the surfaces apart but within the
\* dead zone
C15_Witness ==
  /\ Quiet /\ lastOp = "scroll" /\ rounds >= 2
  /\ \A s \in Surfaces : Ready(s)
  /\ Offset("preview") # Offset("sandbox")

(* -------------------------- listener lifetime -------------------------- *)
\* the sandbox opened and closed, content edited, and both surfaces scrolled
\* to the top and to the far end
NextLifetime ==
  \/ Loading
  \/ Activating
  \/ ClickApply
  \/ ClickDiscard
  \/ Editing
  \/ \E s \in Surfaces, pos \in FarPositions : UserScroll(s, "document", pos)
  \/ \E s \in Surfaces : ScrollEvent(s)

SpecLifetime == Init /\ [][NextLifetime]_vars

\* the load of surface s fires in this step: its context, the first or one
\* replacing another, becomes ready
ContextReady(s) == lastOp' = "load" /\ iframe[s].loading /\ ~iframe'[s].loading

\* C16: a surface has one scroll listener while it has a context and none
\* otherwise; a surface the template no longer renders has no context, no
\* listener and no event queued; a context that replaces another starts with
\* one listener and without the events queued in the one it replaced; and a
\* report reaches the host only from the current context of a rendered
\* surface.
C16_ScopedListener ==
  /\ [](\A s \in Surfaces :
          /\ iframe[s].listeners = (IF Ready(s) THEN 1 ELSE 0)
          /\ ~Rendered(s, isActive) =>
               /\ ~iframe[s].mounted /\ ~Ready(s)
               /\ iframe[s].listeners = 0 /\ iframe[s].scrollPending = "none")
  /\ [][\A s \in Surfaces :
          /\ ContextReady(s) =>
               /\ iframe'[s].listeners = 1
               /\ iframe'[s].payload = iframe[s].srcdoc
               /\ iframe'[s].scrollPending # "user"
          /\ (Reported /\ lastEmit'.surface = s) =>
               /\ Rendered(s, isActive) /\ Ready(s) /\ ~ContextReady(s)
               /\ iframe[s].listeners = 1]_vars

\* the preview's context has just been built while the shared position shows
\* that an earlier context reported: the preview's own earlier context, or
\* the sandbox's, since unmounted
C16_Witness ==
  /\ lastOp = "load" /\ ~isActive /\ ~iframe["sandbox"].mounted
  /\ sharedScrollTop = MaxPos
  /\ Ready("preview") /\ iframe["preview"].listeners = 1
  /\ iframe["preview"].scrollPending = "echo"

(* --------------------------- reported offset --------------------------- *)
Larger(a, b) == IF a >= b THEN a ELSE b
\* surface s is the one whose listener emits in this step
Reports(s) == Reported /\ lastEmit'.surface = s

\* C17 as stated: the position a surface emits is the larger of its context's
\* document-level and body-level offsets.
C17_Original ==
  [][\A s \in Surfaces :
       Reports(s) => lastEmit'.pos = Larger(iframe[s].docTop, iframe[s].bodyTop)]_vars

\* C17: the position a surface emits is its context's document-level offset
\* when that is not zero and the body-level offset otherwise; it is the
\* larger of the two whenever one of them is zero or the document-level offset
\* is not the smaller.
C17_DocumentFirst ==
  [][\A s \in Surfaces :
       Reports(s) =>
         /\ iframe[s].docTop # 0 => lastEmit'.pos = iframe[s].docTop
         /\ iframe[s].docTop = 0 => lastEmit'.pos = iframe[s].bodyTop
         /\ (iframe[s].docTop = 0 \/ iframe[s].bodyTop = 0
               \/ iframe[s].docTop >= iframe[s].bodyTop)
              => lastEmit'.pos = Larger(iframe[s].docTop, iframe[s].bodyTop)]_vars

\* a surface whose body-level offset exceeds a non-zero document-level offset
\* has reported the document-level offset
C17_Witness ==
  /\ lastOp = "scroll"
  /\ \E s \in Surfaces :
       /\ lastEmit.surface = s
       /\ iframe[s].docTop # 0 /\ iframe[s].bodyTop > iframe[s].docTop
       /\ lastEmit.pos = iframe[s].docTop

(* ---------------------------- initial scroll --------------------------- *)
\* C18: when a surface's context becomes ready, on its first load or on a
\* reload after a content change, its document-level and body-level offsets
\* are set to the shared position, also when that position is within the dead
\* zone of the offset the new context starts with.
C18_InitialScroll ==
  [][\A s \in Surfaces :
       ContextReady(s) =>
         /\ iframe'[s].docTop = sharedScrollTop
         /\ iframe'[s].bodyTop = sharedScrollTop
         /\ OffsetAfter(s) = sharedScrollTop']_vars

\* the preview has been reloaded while the shared position was within the dead
\* zone of the top, and stands at the shared position; the sandbox, with no
\* event queued, is not the surface that has just loaded
C18_Witness ==
  /\ lastOp = "load" /\ sharedScrollTop \in 1..DeadZone
  /\ Ready("sandbox") /\ iframe["sandbox"].scrollPending = "none"
  /\ Ready("preview") /\ ~iframe["preview"].loading
  /\ iframe["preview"].docTop = sharedScrollTop
  /\ iframe["preview"].bodyTop = sharedScrollTop
  /\ iframe["preview"].scrollPending = "echo"

(* --------------------------- style injection --------------------------- *)
\* C19: a context holds exactly one injected style element, and its text is
\* the compilation of the rule list as it now is, however many times the list
\* changed under the context; a surface without a context holds none.
C19_SingleInjection ==
  \A s \in Surfaces :
    /\ Ready(s) =>
         /\ iframe[s].styleEls = 1
         /\ iframe[s].styleText = generateStyleText(styleOverrides)
    /\ ~Ready(s) => iframe[s].styleEls = 0

\* the list changed under a context loaded with other rules: the injected
\* text is the new compilation, in one element
C19_Witness ==
  /\ lastOp = "setStyles"
  /\ \E s \in Surfaces :
       /\ Ready(s) /\ iframe[s].styleEls = 1
       /\ iframe[s].payload[2] # "" /\ iframe[s].styleText # ""
       /\ iframe[s].styleText # iframe[s].payload[2]
       /\ iframe[s].styleText = generateStyleText(styleOverrides)

(* ------------------------------ UI gating ------------------------------ *)
\* C20: the sandbox surface is mounted exactly while the sandbox is active,
\* and every apply or discard issued through the buttons is issued in the
\* active state, raises nothing and leaves the sandbox inactive, so that none
\* follows it before the next activate.
C20_ControlsGated ==
  /\ [](iframe["sandbox"].mounted <=> isActive)
  /\ [][lastOp' \in {"apply", "discard"}
          => /\ isActive /\ iframe["sandbox"].mounted
             /\ raised' = "none"
             /\ ~isActive' /\ ~iframe'["sandbox"].mounted]_vars

\* an apply through the button has closed the sandbox and removed its surface
C20_Witness ==
  /\ lastOp = "apply" /\ raised = "none"
  /\ ~isActive /\ ~iframe["sandbox"].mounted
  /\ mergeCalls # <<>>
====
